---- MODULE Spec2Model ----
(***************************************************************************)
(* Model of the PM2.5 forecasting core of the smart-city platform:         *)
(*   backend/app/ml/trainer.py             PM25ModelTrainer                *)
(*   backend/app/ml/predictor.py           PM25Predictor                   *)
(*   backend/app/ml/feature_engineering.py FeatureEngineer                 *)
(*                                                                         *)
(* Three specifications share the module:                                  *)
(*   Spec       the model bundle on disk, written by a trainer and read    *)
(*              by a predictor that run as concurrent flows;               *)
(*   SpecFE     extract_features / prepare_training_data over hourly       *)
(*              series with gaps, null values and shuffled input order;    *)
(*   SpecFetch  the two pagination loops of fetch_training_data.           *)
(***************************************************************************)
EXTENDS Integers, Sequences, FiniteSets, TLC

\* Optional[...] values: None is the empty tuple, a present value v is <<v>>
None == <<>>
Some(v) == <<v>>
Val(o) == o[1]

(***************************************************************************)
(* ------------------------------ bounds --------------------------------- *)
(***************************************************************************)
\* number of save_model calls explored in one behaviour
MaxSaves == 2
\* number of predict_j_plus_1 calls explored in one behaviour
MaxPredicts == 1
\* items of the pickle stream that one buffered write carries to the file
ChunkLen == 3

(***************************************************************************)
(* ------------------- cities and the bundle location -------------------- *)
(***************************************************************************)
\* city keys used by the repository: train_models.py trains 'Paris' and
\* 'Lyon', main.py and the IoT simulator use 'paris'
Cities == {"Paris", "paris", "Lyon"}

\* str.lower() on the city keys
Lower(c) == CASE c = "Paris" -> "paris"
              [] c = "Lyon"  -> "lyon"
              [] OTHER       -> c

\* model_dir / f"pm25_model_{city.lower()}.pkl"
ModelPath(c) == <<"pm25_model_", Lower(c), ".pkl">>

Files == {ModelPath(c) : c \in Cities}

(***************************************************************************)
(* ------------------------- feature column lists ------------------------ *)
(***************************************************************************)
\* required_cols of extract_features
RequiredCols ==
    <<"pm25", "pm10", "no2", "o3",
      "temperature", "humidity", "wind_speed", "pressure",
      "pm25_mean_7d", "pm25_std_7d", "pm25_min_7d", "pm25_max_7d",
      "pm25_lag_1h", "pm25_lag_6h", "pm25_lag_12h", "pm25_lag_24h",
      "pm25_change_1h", "pm25_change_24h">>

\* feature_cols of prepare_training_data, in training order
FeatureCols ==
    <<"hour", "day_of_week", "is_weekend", "season",
      "pm25_mean_7d", "pm25_std_7d", "pm25_min_7d", "pm25_max_7d",
      "pm25_lag_1h", "pm25_lag_6h", "pm25_lag_12h", "pm25_lag_24h",
      "pm25_change_1h", "pm25_change_24h",
      "temperature", "humidity", "wind_speed", "pressure",
      "pm10", "no2", "o3">>

\* columns of the merged frame (select '*' on both tables, inner join)
RawCols ==
    <<"timestamp", "city", "pm25", "pm10", "no2", "o3",
      "temperature", "humidity", "pressure", "wind_speed">>

\* columns that extract_features appends, in the order it assigns them
DerivedCols ==
    <<"hour", "day_of_week", "is_weekend", "month", "season",
      "pm25_mean_7d", "pm25_std_7d", "pm25_min_7d", "pm25_max_7d",
      "pm25_lag_1h", "pm25_lag_6h", "pm25_lag_12h", "pm25_lag_24h",
      "pm25_change_1h", "pm25_change_24h">>

Range(s) == {s[i] : i \in 1..Len(s)}

\* [col for col in cols if col in present]
FilterCols(cols, present) == SelectSeq(cols, LAMBDA c : c \in present)


(***************************************************************************)
(* --------------------- numbers (fixed point, x1000) -------------------- *)
(***************************************************************************)
\* every real of the program is kept as an integer number of thousandths

Max2(a, b) == IF a >= b THEN a ELSE b

\* round(x, 2) of a value held in units of 1/(100*q): nearest hundredth,
\* ties to even, as Python's round
Round2(x, q) ==
    LET fl == x \div q
        r  == x % q
    IN  IF 2 * r < q THEN fl
        ELSE IF 2 * r > q THEN fl + 1
        ELSE IF fl % 2 = 0 THEN fl ELSE fl + 1

\* outcomes of training that the bundle carries: r2, mape (percent), rmse,
\* all in thousandths
MetricsSet ==
    { [r2 |->  850, mape |->  12500, rmse |-> 4200],
      [r2 |-> -200, mape |-> 130000, rmse |-> 15000] }

\* point estimates the fitted forest can return (thousandths of ug/m3)
PredValues == {12004, 35404}

\* variant: the upper boundary of a band belongs to the next band
AqiLevel_Exclusive(pm25) ==
    IF pm25 < 12000 THEN "Good"
    ELSE IF pm25 < 35400 THEN "Moderate"
    ELSE IF pm25 < 55400 THEN "Unhealthy for Sensitive Groups"
    ELSE IF pm25 < 150400 THEN "Unhealthy"
    ELSE IF pm25 < 250400 THEN "Very Unhealthy"
    ELSE "Hazardous"

\* _get_aqi_level: the band name for a concentration in thousandths
AqiLevel(pm25) ==
    IF pm25 <= 12000 THEN "Good"
    ELSE IF pm25 <= 35400 THEN "Moderate"
    ELSE IF pm25 <= 55400 THEN "Unhealthy for Sensitive Groups"
    ELSE IF pm25 <= 150400 THEN "Unhealthy"
    ELSE IF pm25 <= 250400 THEN "Very Unhealthy"
    ELSE "Hazardous"

(***************************************************************************)
(* ------------------------ the pickled bundle --------------------------- *)
(***************************************************************************)
\* a path of the model directory: absent, or a file holding a stream
NoFile == [exists |-> FALSE, data |-> <<>>]
File(stream) == [exists |-> TRUE, data |-> stream]

\* the dict that save_model pickles
ModelData(fields, now, c) ==
    [model           |-> fields.model,
     feature_columns |-> fields.feature_columns,
     metrics         |-> fields.metrics,
     trained_at      |-> now,
     city            |-> c]

BundleKeys == <<"model", "feature_columns", "metrics", "trained_at", "city">>

\* pickle.dump: the dict as a stream of (key, value) items closed by STOP
Dumps(d) ==
    << <<"model", d.model>>,
       <<"feature_columns", d.feature_columns>>,
       <<"metrics", d.metrics>>,
       <<"trained_at", d.trained_at>>,
       <<"city", d.city>> ,
       <<"STOP">> >>

PickleLen == Len(BundleKeys) + 1

\* pickle.load: reads one pickle from the start of the stream up to its STOP;
\* a stream that ends before the STOP raises (EOFError / UnpicklingError)
Loads(stream) ==
    IF Len(stream) < PickleLen \/ stream[PickleLen] # <<"STOP">>
    THEN [ok |-> FALSE]
    ELSE [ok |-> TRUE,
          data |-> [k \in Range(BundleKeys) |->
                      LET i == CHOOSE j \in 1..Len(BundleKeys) : stream[j][1] = k
                      IN  stream[i][2]]]

\* a bundle written by an earlier trainer version whose feature list held a
\* nullable column of the measurement table
LegacyCols == <<"hour", "pm25_lag_1h", "visibility", "temperature">>

LegacyBundle ==
    [model           |-> Some([city |-> "Lyon", metrics |-> [r2 |-> 850, mape |-> 12500, rmse |-> 4200]]),
     feature_columns |-> Some(LegacyCols),
     metrics         |-> Some([r2 |-> 850, mape |-> 12500, rmse |-> 4200]),
     trained_at      |-> 0,
     city            |-> "Lyon"]


(***************************************************************************)
(* ---------------- state of the bundle store specification -------------- *)
(***************************************************************************)
\* "T" is the flow that owns a PM25ModelTrainer (train endpoint, training
\* scripts); "P" is the flow that serves predict_j_plus_1 and owns the
\* trainer object embedded in PM25Predictor.  The two run concurrently.
Objs == {"T", "P"}

VARIABLES
    disk,         \* model_dir: path -> NoFile or File(stream)
    trainer,      \* per flow: the fields model, feature_columns, metrics
    pc,           \* per flow: position inside the running call
    city,         \* per flow: the city argument of the running call
    out,          \* per flow: how the last call ended
    wr,           \* the stream save_model still has to write
    nsaves,       \* save_model calls so far (also the clock of trained_at)
    npredicts,    \* predict_j_plus_1 calls so far
    predictions,  \* the 'predictions' table
    call,         \* what the running predict call has done so far
    result,       \* the dictionary the last predict call returned
    before,       \* history: the trainer's fields when its last load began
    seen,         \* history: what the predictor's pickle.load found on disk
    committed,    \* history: per path, the last completely written bundle
    lastSave      \* history: the city of the last completed save_model

storeVars == <<disk, trainer, pc, city, out, wr, nsaves, npredicts, predictions,
               call, result, before, seen, committed, lastSave>>

\* state of the feature-engineering specification
VARIABLES
    feIn,         \* the frame handed to extract_features
    fePhase,      \* "raw", "features" (extracted), "pairs" (X, y built),
                  \* "split" or "error" (train_test_split raised)
    feOut,        \* the frame extract_features returned
    fePairs,      \* the (X, y) prepare_training_data returned
    feSplit,      \* X_train, X_test, y_train, y_test
    feFit         \* the trainer after fit: model, metrics, returned status,
                  \* and the bundle save_model persisted

feVars == <<feIn, fePhase, feOut, fePairs, feSplit, feFit>>

\* state of the pagination specification
VARIABLES
    ftRows,       \* rows of the city inside the window, per table
    ftPc,         \* "aq", "weather", "merge", "done" or "error"
    ftOffset,     \* offset of the running loop
    ftReads,      \* reads issued so far, per table
    ftAll,        \* all_aq_data and all_weather_data
    ftDf,         \* the merged frame returned
    ftIns         \* rows written to the tables since the call began, per table

fetchVars == <<ftRows, ftPc, ftOffset, ftReads, ftAll, ftDf, ftIns>>

\* state of the anomaly-detection specification
VARIABLES
    dtSeries,     \* the measurements of the store, as [n, shape]
    dtPc,         \* "zscore", "isolation", "merge", "promote", "done", "error"
                  \* or "failed"
    dtZ,          \* zscore_anomalies
    dtIf,         \* iforest_anomalies
    dtEval,       \* rows each method evaluated, and whether a forest was fitted
    dtResult,     \* the dictionary detect_all_anomalies returned
    dtAlerts      \* the alerts table

detVars == <<dtSeries, dtPc, dtZ, dtIf, dtEval, dtResult, dtAlerts>>

\* state of the forecast-arithmetic specification
VARIABLES
    fcIn,         \* two point estimates and the metrics of a bundle
    fcPc,         \* "start", "built" or "saved"
    fcOut         \* the dictionaries built for the two estimates, the rows saved

fcVars == <<fcIn, fcPc, fcOut>>

vars == <<storeVars, feVars, fetchVars, detVars, fcVars>>

\* nothing split yet
NoSplit == [X_train |-> <<>>, X_test |-> <<>>, y_train |-> <<>>, y_test |-> <<>>]

\* nothing fitted, nothing persisted
NoFit == [model |-> None, metrics |-> None, status |-> None, bundle |-> None]

\* the parts of the state a specification does not use stay at rest
StoreAtRest ==
    /\ disk = [f \in Files |-> NoFile]
    /\ trainer = [o \in Objs |-> [model |-> None, feature_columns |-> None, metrics |-> None]]
    /\ pc = [o \in Objs |-> "idle"]
    /\ city = [o \in Objs |-> "paris"]
    /\ out = [o \in Objs |-> "none"]
    /\ wr = <<>>
    /\ nsaves = 0
    /\ npredicts = 0
    /\ predictions = <<>>
    /\ call = [fetched |-> FALSE, invoked |-> FALSE, input |-> None,
               bundleCity |-> None, frame |-> None, built |-> None, hist0 |-> 0]
    /\ result = None
    /\ before = None
    /\ seen = None
    /\ committed = [f \in Files |-> None]
    /\ lastSave = None

FeAtRest ==
    /\ feIn = <<>>
    /\ fePhase = "rest"
    /\ feOut = <<>>
    /\ fePairs = [X |-> <<>>, y |-> <<>>]
    /\ feSplit = NoSplit
    /\ feFit = NoFit

FetchAtRest ==
    /\ ftRows = [aq |-> 0, weather |-> 0]
    /\ ftPc = "rest"
    /\ ftOffset = 0
    /\ ftReads = [aq |-> 0, weather |-> 0]
    /\ ftAll = [aq |-> <<>>, weather |-> <<>>]
    /\ ftDf = <<>>
    /\ ftIns = [aq |-> {}, weather |-> {}]

\* no method has run
NoEval == [z |-> 0, iso |-> 0, fitted |-> FALSE]

DetAtRest ==
    /\ dtSeries = [n |-> 0, shape |-> "flat"]
    /\ dtPc = "rest"
    /\ dtZ = <<>>
    /\ dtIf = <<>>
    /\ dtEval = NoEval
    /\ dtResult = None
    /\ dtAlerts = <<>>

FcAtRest ==
    /\ fcIn = [x |-> 0, y |-> 0, metrics |-> [r2 |-> 0, mape |-> 0, rmse |-> 0]]
    /\ fcPc = "rest"
    /\ fcOut = <<>>

\* PM25ModelTrainer.__init__
NewTrainer == [model |-> None, feature_columns |-> None, metrics |-> None]

\* nothing fetched, no model invoked, no dictionary built yet
NoCall == [fetched |-> FALSE, invoked |-> FALSE, input |-> None,
           bundleCity |-> None, frame |-> None, built |-> None, hist0 |-> 0]

\* the model directory at start-up: empty, or holding bundles of earlier runs
InitDisks ==
    { [f \in Files |-> NoFile],
      [f \in Files |-> IF f = ModelPath("Lyon")
                       THEN File(Dumps(LegacyBundle)) ELSE NoFile] }

Init ==
    /\ disk \in InitDisks
    /\ trainer = [o \in Objs |-> NewTrainer]
    /\ pc = [o \in Objs |-> "idle"]
    /\ city = [o \in Objs |-> "paris"]
    /\ out = [o \in Objs |-> "none"]
    /\ wr = <<>>
    /\ nsaves = 0
    /\ npredicts = 0
    /\ predictions = <<>>
    /\ call = NoCall
    /\ result = None
    /\ before = None
    /\ seen = None
    /\ committed = [f \in Files |->
                      IF disk[f].exists THEN Some(Loads(disk[f].data).data) ELSE None]
    /\ lastSave = None
    /\ FeAtRest
    /\ FetchAtRest
    /\ DetAtRest
    /\ FcAtRest

(***************************************************************************)
(* ------------------------- PM25ModelTrainer ---------------------------- *)
(***************************************************************************)
\* columns of the frame extract_features returns; the measurement table may
\* or may not carry the nullable column 'visibility'
FrameCols(vis) ==
    RawCols \o (IF vis THEN <<"visibility">> ELSE <<>>) \o DerivedCols

\* a request handler builds a fresh PM25ModelTrainer(supabase)
TNew ==
    /\ pc["T"] = "idle"
    /\ trainer["T"] # NewTrainer
    /\ trainer' = [trainer EXCEPT !["T"] = NewTrainer]
    /\ before' = None
    /\ out' = [out EXCEPT !["T"] = "none"]
    /\ UNCHANGED <<disk, pc, city, wr, nsaves, npredicts, predictions,
                   call, result, seen, committed, lastSave>>
    /\ UNCHANGED <<feVars, fetchVars, detVars, fcVars>>

\* train(city): the fetch raises; or the frame is fetched, the column list is
\* stored and the split of an empty (X, y) raises; or the forest is fitted.
\* Every caller of train (the train endpoint, the start-up hook, the training
\* scripts) goes on to save_model(city) when train returns.
Train(c) ==
    /\ pc["T"] = "idle"
    /\ nsaves < MaxSaves
    /\ \E vis \in BOOLEAN :
       LET cols == FilterCols(FeatureCols, Range(FrameCols(vis))) IN
       \/ /\ out' = [out EXCEPT !["T"] = "InsufficientData"]
          /\ UNCHANGED <<trainer, pc>>
       \/ /\ out' = [out EXCEPT !["T"] = "InsufficientData"]
          /\ trainer' = [trainer EXCEPT !["T"].feature_columns = Some(cols)]
          /\ UNCHANGED pc
       \/ \E m \in MetricsSet :
          /\ out' = [out EXCEPT !["T"] = "trained"]
          /\ pc' = [pc EXCEPT !["T"] = "trained"]
          /\ trainer' = [trainer EXCEPT !["T"] =
                           [model           |-> Some([city |-> c, metrics |-> m]),
                            feature_columns |-> Some(cols),
                            metrics         |-> Some(m)]]
    /\ city' = [city EXCEPT !["T"] = c]
    /\ before' = None
    /\ UNCHANGED <<disk, wr, nsaves, npredicts, predictions,
                   call, result, seen, committed, lastSave>>
    /\ UNCHANGED <<feVars, fetchVars, detVars, fcVars>>

\* variant: the file is opened in append mode and keeps what it held
OpenForWrite_Append(d, f) == [d EXCEPT ![f] = File(d[f].data)]

\* open(model_path, 'wb'): the path now names an empty file
OpenForWrite(d, f) == [d EXCEPT ![f] = File(<<>>)]

\* save_model(city) up to and including open(); raises when no model is held
SaveOpen(c) ==
    /\ pc["T"] = "trained"
    /\ c = city["T"]
    /\ IF trainer["T"].model = None
       THEN /\ out' = [out EXCEPT !["T"] = "ValueError"]
            /\ pc' = [pc EXCEPT !["T"] = "idle"]
            /\ UNCHANGED <<disk, wr, nsaves>>
       ELSE /\ disk' = OpenForWrite(disk, ModelPath(c))
            /\ wr' = Dumps(ModelData(trainer["T"], nsaves + 1, c))
            /\ nsaves' = nsaves + 1
            /\ pc' = [pc EXCEPT !["T"] = "save_write"]
            /\ UNCHANGED out
    /\ UNCHANGED <<trainer, city, npredicts, predictions, call, result,
                   before, seen, committed, lastSave>>
    /\ UNCHANGED <<feVars, fetchVars, detVars, fcVars>>

\* pickle.dump: the next buffered part of the stream reaches the file
SaveWrite ==
    /\ pc["T"] = "save_write"
    /\ wr # <<>>
    /\ LET n == IF Len(wr) < ChunkLen THEN Len(wr) ELSE ChunkLen IN
       /\ disk' = [disk EXCEPT ![ModelPath(city["T"])].data = @ \o SubSeq(wr, 1, n)]
       /\ wr' = SubSeq(wr, n + 1, Len(wr))
    /\ UNCHANGED <<trainer, pc, city, out, nsaves, npredicts, predictions,
                   call, result, before, seen, committed, lastSave>>
    /\ UNCHANGED <<feVars, fetchVars, detVars, fcVars>>

\* the with-block closes the file and save_model returns the path
SaveClose ==
    /\ pc["T"] = "save_write"
    /\ wr = <<>>
    /\ pc' = [pc EXCEPT !["T"] = "idle"]
    /\ out' = [out EXCEPT !["T"] = "saved"]
    /\ committed' = [committed EXCEPT ![ModelPath(city["T"])] =
                       Some(ModelData(trainer["T"], nsaves, city["T"]))]
    /\ lastSave' = Some(city["T"])
    /\ UNCHANGED <<disk, trainer, city, wr, nsaves, npredicts, predictions,
                   call, result, before, seen>>
    /\ UNCHANGED <<feVars, fetchVars, detVars, fcVars>>

\* variant: the fields are cleared before the exists() test
LoadExists_Reset(o, c, t) ==
    /\ city' = [city EXCEPT ![o] = c]
    /\ trainer' = [t EXCEPT ![o] = NewTrainer]
    /\ IF ~ disk[ModelPath(c)].exists
       THEN /\ out' = [out EXCEPT ![o] = "ModelNotFound"]
            /\ pc' = [pc EXCEPT ![o] = "idle"]
       ELSE /\ out' = [out EXCEPT ![o] = "loading"]
            /\ pc' = [pc EXCEPT ![o] = "load_read"]

\* load_model(city) up to the exists() test, called on the trainer fields t;
\* no field is assigned before the test
LoadExists(o, c, t) ==
    /\ city' = [city EXCEPT ![o] = c]
    /\ trainer' = t
    /\ IF ~ disk[ModelPath(c)].exists
       THEN /\ out' = [out EXCEPT ![o] = "ModelNotFound"]
            /\ pc' = [pc EXCEPT ![o] = "idle"]
       ELSE /\ out' = [out EXCEPT ![o] = "loading"]
            /\ pc' = [pc EXCEPT ![o] = "load_read"]

\* a load_model call on the trainer flow's object
LoadCheck(c) ==
    /\ pc["T"] = "idle"
    /\ LoadExists("T", c, trainer)
    /\ before' = Some(trainer["T"])
    /\ UNCHANGED <<disk, wr, nsaves, npredicts, predictions, call,
                   result, seen, committed, lastSave>>
    /\ UNCHANGED <<feVars, fetchVars, detVars, fcVars>>

\* load_model from open() on: pickle.load, then the three assignments
LoadRead(o) ==
    /\ pc[o] = "load_read"
    /\ LET f == ModelPath(city[o])
           stream == disk[f].data
           r == Loads(stream)
       IN  /\ seen' = IF o = "P"
                      THEN Some([stream  |-> stream,
                                 prior   |-> committed[f],
                                 writing |-> IF pc["T"] = "save_write"
                                                /\ ModelPath(city["T"]) = f
                                             THEN Some(ModelData(trainer["T"], nsaves, city["T"]))
                                             ELSE None])
                      ELSE seen
           /\ IF ~ r.ok
              THEN /\ out' = [out EXCEPT ![o] = "UnpicklingError"]
                   /\ pc' = [pc EXCEPT ![o] = "idle"]
                   /\ UNCHANGED <<trainer, call>>
              ELSE /\ trainer' = [trainer EXCEPT ![o] =
                                    [model           |-> r.data.model,
                                     feature_columns |-> r.data.feature_columns,
                                     metrics         |-> r.data.metrics]]
                   /\ out' = [out EXCEPT ![o] = "loaded"]
                   /\ pc' = [pc EXCEPT ![o] = IF o = "P" THEN "features" ELSE "idle"]
                   /\ call' = IF o = "P"
                              THEN [call EXCEPT !.bundleCity = Some(r.data.city)]
                              ELSE call
    /\ UNCHANGED <<disk, city, wr, nsaves, npredicts, predictions, result,
                   before, committed, lastSave>>
    /\ UNCHANGED <<feVars, fetchVars, detVars, fcVars>>


(***************************************************************************)
(* ---------------------------- PM25Predictor ---------------------------- *)
(***************************************************************************)
\* variant: the trained columns are picked but left in the frame's order
SelectColumns_FrameOrder(frame, cols) == FilterCols(frame, Range(cols))

\* features_df[cols]: the columns of the frame picked in the order of cols
SelectColumns(frame, cols) ==
    [i \in 1..Len(cols) |->
        frame[CHOOSE j \in 1..Len(frame) : frame[j] = cols[i]]]

\* variant: neither the confidence nor the lower bound is clamped at 0
BuildResult_NoClamp(c, pred, m, now) ==
    [city             |-> c,
     predicted_pm25   |-> Round2(pred, 10),
     confidence       |-> Round2(100000 - m.mape, 1000),
     prediction_range |-> [lower |-> Round2(pred - m.rmse, 10),
                           upper |-> Round2(pred + m.rmse, 10)],
     aqi_level        |-> AqiLevel(pred),
     prediction_for   |-> now + 24,
     predicted_at     |-> now,
     model_metrics    |-> [r2 |-> m.r2, mape |-> m.mape, rmse |-> m.rmse]]

\* the result dictionary of predict_j_plus_1
BuildResult(c, pred, m, now) ==
    [city             |-> c,
     predicted_pm25   |-> Round2(pred, 10),
     confidence       |-> Round2(Max2(0, 100000 - m.mape), 1000),
     prediction_range |-> [lower |-> Round2(Max2(0, pred - m.rmse), 10),
                           upper |-> Round2(pred + m.rmse, 10)],
     aqi_level        |-> AqiLevel(pred),
     prediction_for   |-> now + 24,
     predicted_at     |-> now,
     model_metrics    |-> [r2 |-> m.r2, mape |-> m.mape, rmse |-> m.rmse]]

\* the row _save_prediction inserts
PredictionRecord(p) ==
    [city                   |-> p.city,
     prediction_for         |-> p.prediction_for,
     predicted_pm25         |-> p.predicted_pm25,
     confidence             |-> p.confidence,
     prediction_range_lower |-> p.prediction_range.lower,
     prediction_range_upper |-> p.prediction_range.upper,
     model_r2               |-> p.model_metrics.r2,
     model_mape             |-> p.model_metrics.mape,
     created_at             |-> p.predicted_at]

\* the endpoint builds PM25Predictor(supabase) and predict_j_plus_1 calls
\* trainer.load_model; FileNotFoundError becomes the not-found ValueError
PredictStart(c) ==
    /\ pc["P"] = "idle"
    /\ npredicts < MaxPredicts
    /\ npredicts' = npredicts + 1
    /\ seen' = None
    /\ call' = [NoCall EXCEPT !.hist0 = Len(predictions)]
    /\ result' = None
    /\ LoadExists("P", c, [trainer EXCEPT !["P"] = NewTrainer])
    /\ UNCHANGED <<disk, wr, nsaves, predictions, before, committed, lastSave>>
    /\ UNCHANGED <<feVars, fetchVars, detVars, fcVars>>

\* the call ends with the exception e
PredictFail(e, cl) ==
    /\ out' = [out EXCEPT !["P"] = e]
    /\ pc' = [pc EXCEPT !["P"] = "idle"]
    /\ call' = cl

\* predict_j_plus_1 from the missing-column test to the built dictionary, on
\* the columns of the one-row (or empty) frame of prepare_prediction_features
PredictOnFrame(frame, rows, pred) ==
    LET cols    == Val(trainer["P"].feature_columns)
        missing == Range(cols) \ Range(frame)
        got     == [call EXCEPT !.fetched = TRUE, !.frame = Some(frame)]
    IN  IF missing # {}
        THEN PredictFail("FeatureMismatch", got)
        ELSE LET X == SelectColumns(frame, cols)
                 ran == [got EXCEPT !.invoked = TRUE, !.input = Some(X)]
             IN  IF rows = 0
                 THEN \* model.predict rejects a frame of zero rows
                      PredictFail("InsufficientData", ran)
                 ELSE /\ call' = [ran EXCEPT !.built =
                                    Some(BuildResult(city["P"], pred,
                                         Val(trainer["P"].metrics), npredicts))]
                      /\ pc' = [pc EXCEPT !["P"] = "save_pred"]
                      /\ UNCHANGED out

\* predict_j_plus_1 from prepare_prediction_features to the built dictionary
PredictCompute ==
    /\ pc["P"] = "features"
    /\ \/ \* fetch_training_data raises ValueError: a series is empty
          PredictFail("InsufficientData", [call EXCEPT !.fetched = TRUE])
       \/ \* extract_features raises KeyError: a required column is absent
          PredictFail("SchemaMismatch", [call EXCEPT !.fetched = TRUE])
       \/ \E vis \in BOOLEAN, rows \in {0, 1}, pred \in PredValues :
             PredictOnFrame(FrameCols(vis), rows, pred)
    /\ UNCHANGED <<disk, trainer, city, wr, nsaves, npredicts, predictions,
                   result, before, seen, committed, lastSave>>
    /\ UNCHANGED <<feVars, fetchVars, detVars, fcVars>>

\* variant: a failed insert is swallowed and the dictionary returned anyway
PredictSave_Swallow ==
    /\ pc["P"] = "save_pred"
    /\ pc' = [pc EXCEPT !["P"] = "idle"]
    /\ result' = call.built
    /\ out' = [out EXCEPT !["P"] = "returned"]
    /\ \/ predictions' = Append(predictions, PredictionRecord(Val(call.built)))
       \/ UNCHANGED predictions
    /\ UNCHANGED <<disk, trainer, city, wr, nsaves, npredicts, call,
                   before, seen, committed, lastSave>>
    /\ UNCHANGED <<feVars, fetchVars, detVars, fcVars>>

\* _save_prediction: the insert succeeds and the dictionary is returned, or
\* the store raises and the exception leaves predict_j_plus_1
PredictSave ==
    /\ pc["P"] = "save_pred"
    /\ pc' = [pc EXCEPT !["P"] = "idle"]
    /\ \/ /\ predictions' = Append(predictions, PredictionRecord(Val(call.built)))
          /\ result' = call.built
          /\ out' = [out EXCEPT !["P"] = "returned"]
       \/ /\ out' = [out EXCEPT !["P"] = "UpstreamIO"]
          /\ UNCHANGED <<predictions, result>>
    /\ UNCHANGED <<disk, trainer, city, wr, nsaves, npredicts, call,
                   before, seen, committed, lastSave>>
    /\ UNCHANGED <<feVars, fetchVars, detVars, fcVars>>

Next ==
    \/ TNew
    \/ \E c \in Cities : Train(c)
    \/ \E c \in Cities : SaveOpen(c)
    \/ SaveWrite
    \/ SaveClose
    \/ \E c \in Cities : LoadCheck(c)
    \/ \E o \in Objs : LoadRead(o)
    \/ \E c \in Cities : PredictStart(c)
    \/ PredictCompute
    \/ PredictSave

Spec == Init /\ [][Next]_vars

TypeOK ==
    /\ \A o \in Objs :
         pc[o] \in {"idle", "trained", "save_write", "load_read", "features", "save_pred"}
    /\ nsaves \in 0..MaxSaves
    /\ npredicts \in 0..MaxPredicts


(***************************************************************************)
(* ------------------- FeatureEngineer: the input frames ----------------- *)
(***************************************************************************)
\* rows of the longest series explored
MaxRows == 51

\* rolling(window=7*24, min_periods=24)
RollingWindow == 168
MinPeriods == 24
\* prepare_training_data(forecast_hours=24)
ForecastHours == 24

\* lengths explored: the shortest series, those around the first feature row
\* and those around the first training pair
Lengths == {n \in 0..MaxRows : n <= 1 \/ (n >= 23 /\ n <= 26) \/ n >= MaxRows - 3}

\* irregular rows of a series, by position in chronological order: rows that
\* follow a missing hour, rows with a null pm25 and rows with a null pm10;
\* a series has any subset of each
GapBefore == {2, 26, 30}
NullPm25At == {3, 4, 27}
NullPm10At == {28, 49}

\* the pm25 reading of hour t (thousandths); no two hours read the same
PmAt(t) == 20000 + 500 * t + ((t * t) % 11) * 40

\* the pm10 reading of hour t
Pm10At(t) == 30000 + 700 * t

\* the merged frame of an hourly series of n rows, in chronological order;
\* timestamps count hours from 2024-02-28 00:00 (a Wednesday)
Series(n, gaps, n25, n10) ==
    [i \in 1..n |->
        LET t == (i - 1) + Cardinality({g \in gaps : g <= i}) IN
        [timestamp |-> t,
         pm25 |-> IF i \in n25 THEN None ELSE Some(PmAt(t)),
         pm10 |-> IF i \in n10 THEN None ELSE Some(Pm10At(t))]]

Reverse(s) == [i \in 1..Len(s) |-> s[Len(s) + 1 - i]]

\* the second half first
Rotate(s) == SubSeq(s, Len(s) \div 2 + 1, Len(s)) \o SubSeq(s, 1, Len(s) \div 2)

\* the frames handed to extract_features: the rows of a series in
\* chronological, reversed or rotated order
InputFrames ==
    UNION { {Series(n, g, a, b), Reverse(Series(n, g, a, b)), Rotate(Series(n, g, a, b))} :
              n \in Lengths, g \in SUBSET GapBefore,
              a \in SUBSET NullPm25At, b \in SUBSET NullPm10At }

(***************************************************************************)
(* ----------------------- extract_features ------------------------------ *)
(***************************************************************************)
\* variant: the frame is used in the order it arrived
SortValues_Unsorted(df) == df

\* df.sort_values('timestamp').reset_index(drop=True): selection by
\* increasing timestamp
RECURSIVE SortValues(_)
SortValues(df) ==
    IF df = <<>> THEN <<>>
    ELSE LET i == CHOOSE j \in 1..Len(df) :
                    \A k \in 1..Len(df) : df[j].timestamp <= df[k].timestamp
         IN  <<df[i]>> \o SortValues(SubSeq(df, 1, i - 1) \o SubSeq(df, i + 1, Len(df)))

\* get_season(month)
GetSeason(month) ==
    IF month \in {12, 1, 2} THEN 0
    ELSE IF month \in {3, 4, 5} THEN 1
    ELSE IF month \in {6, 7, 8} THEN 2
    ELSE 3

\* timestamp.dt.hour, .dt.dayofweek (Monday = 0) and .dt.month of an hour
\* counted from 2024-02-28 00:00; February 2024 ends after two days
HourOf(t) == t % 24
DayOfWeek(t) == (2 + t \div 24) % 7
MonthOf(t) == IF t \div 24 < 2 THEN 2 ELSE 3

\* the non-null pm25 observations of the trailing window that ends at row i
RECURSIVE WindowObs(_, _, _)
WindowObs(s, lo, i) ==
    IF i < lo THEN <<>>
    ELSE WindowObs(s, lo, i - 1) \o s[i].pm25

RECURSIVE SumSeq(_)
SumSeq(q) == IF q = <<>> THEN 0 ELSE Head(q) + SumSeq(Tail(q))

RECURSIVE MinSeq(_)
MinSeq(q) == IF Len(q) = 1 THEN q[1]
             ELSE LET m == MinSeq(Tail(q)) IN IF q[1] <= m THEN q[1] ELSE m

RECURSIVE MaxSeq(_)
MaxSeq(q) == IF Len(q) = 1 THEN q[1]
             ELSE LET m == MaxSeq(Tail(q)) IN IF q[1] >= m THEN q[1] ELSE m

\* variant: the statistics are defined from the first observation on
Rolling_NoFloor(s, i, minp) ==
    LET lo  == Max2(1, i - RollingWindow + 1)
        obs == WindowObs(s, lo, i)
    IN  IF Len(obs) < 1
        THEN [mean |-> None, std |-> None, min |-> None, max |-> None]
        ELSE [mean |-> Some(<<SumSeq(obs), Len(obs)>>),
              std  |-> Some(<<SumSeq([j \in 1..Len(obs) |-> (obs[j] \div 10) * (obs[j] \div 10)]),
                              SumSeq(obs), Len(obs)>>),
              min  |-> Some(MinSeq(obs)),
              max  |-> Some(MaxSeq(obs))]

\* df['pm25'].rolling(window=7*24, min_periods=24): the statistics of row i,
\* undefined (None) below min_periods observations.  The mean is kept as the
\* exact pair <<sum, count>> and the std as <<sum of squares, sum, count>>.
Rolling(s, i, minp) ==
    LET lo  == Max2(1, i - RollingWindow + 1)
        obs == WindowObs(s, lo, i)
    IN  IF Len(obs) < minp
        THEN [mean |-> None, std |-> None, min |-> None, max |-> None]
        ELSE [mean |-> Some(<<SumSeq(obs), Len(obs)>>),
              std  |-> Some(<<SumSeq([j \in 1..Len(obs) |-> (obs[j] \div 10) * (obs[j] \div 10)]),
                              SumSeq(obs), Len(obs)>>),
              min  |-> Some(MinSeq(obs)),
              max  |-> Some(MaxSeq(obs))]

\* variant: the shift looks k positions ahead instead of back
Shift_Lead(s, i, k) == IF i + k >= 1 /\ i + k <= Len(s) THEN s[i + k].pm25 ELSE None

\* df['pm25'].shift(k): the pm25 of the row k positions earlier
Shift(s, i, k) == IF i - k >= 1 /\ i - k <= Len(s) THEN s[i - k].pm25 ELSE None

\* a - b on nullable values
Minus(a, b) == IF a = None \/ b = None THEN None ELSE Some(Val(a) - Val(b))

\* the row of position i with every engineered column
FeatureRowAt(s, i) ==
    LET r   == s[i]
        rol == Rolling(s, i, MinPeriods)
        lag1  == Shift(s, i, 1)
        lag24 == Shift(s, i, 24)
    IN  [index          |-> i - 1,
         timestamp      |-> r.timestamp,
         pm25           |-> r.pm25,
         pm10           |-> r.pm10,
         hour           |-> HourOf(r.timestamp),
         day_of_week    |-> DayOfWeek(r.timestamp),
         is_weekend     |-> IF DayOfWeek(r.timestamp) >= 5 THEN 1 ELSE 0,
         month          |-> MonthOf(r.timestamp),
         season         |-> GetSeason(MonthOf(r.timestamp)),
         pm25_mean_7d   |-> rol.mean,
         pm25_std_7d    |-> rol.std,
         pm25_min_7d    |-> rol.min,
         pm25_max_7d    |-> rol.max,
         pm25_lag_1h    |-> lag1,
         pm25_lag_6h    |-> Shift(s, i, 6),
         pm25_lag_12h   |-> Shift(s, i, 12),
         pm25_lag_24h   |-> lag24,
         pm25_change_1h  |-> Minus(r.pm25, lag1),
         pm25_change_24h |-> Minus(r.pm25, lag24)]

\* the columns the rows of the model carry; the other raw columns (no2, o3
\* and the weather readings) are non-null in every row and left out
CarriedCols ==
    {"timestamp", "pm25", "pm10"} \cup Range(DerivedCols)

\* df.dropna(subset=required_cols)
DropNa(rows, subset) ==
    SelectSeq(rows, LAMBDA r : \A c \in subset : r[c] # None)

\* extract_features(df)
ExtractFeatures(df) ==
    LET s == SortValues(df) IN
    DropNa([i \in 1..Len(s) |-> FeatureRowAt(s, i)],
           Range(RequiredCols) \cap CarriedCols)

(***************************************************************************)
(* --------------------- prepare_training_data --------------------------- *)
(***************************************************************************)
\* df[target_column].shift(-forecast_hours): the target of the row at
\* position i is the pm25 of the row forecast_hours positions later
TargetAt(df, i, hours) ==
    IF i + hours <= Len(df) THEN df[i + hours].pm25 ELSE None

\* prepare_training_data(df, 'pm25', forecast_hours): X (the index label and
\* the feature columns of the kept rows) and y (their targets)
PrepareTrainingData(df, hours) ==
    LET withTarget == [i \in 1..Len(df) |-> [row |-> df[i], target |-> TargetAt(df, i, hours)]]
        kept == SelectSeq(withTarget, LAMBDA e : e.target # None)
        cols == FilterCols(FeatureCols, CarriedCols)
    IN  [X |-> [i \in 1..Len(kept) |->
                  [c \in {"index"} \cup Range(cols) |-> kept[i].row[c]]],
         y |-> [i \in 1..Len(kept) |-> [index |-> kept[i].row.index,
                                        target |-> Val(kept[i].target)]]]

(***************************************************************************)
(* ------------------ claims about the bundle on disk -------------------- *)
(***************************************************************************)
\* C1: a load of a city that already has a persisted bundle, running while a
\* save for that city is in progress, finds on disk either the complete
\* previous bundle or the complete new bundle, never an empty or truncated
\* stream.
C1_LoadSeesWholeBundle ==
    (seen # None /\ Val(seen).prior # None) =>
        \/ Val(seen).stream = Dumps(Val(Val(seen).prior))
        \/ /\ Val(seen).writing # None
           /\ Val(seen).stream = Dumps(Val(Val(seen).writing))

\* C4: a predict call that returns has appended exactly one record, the one
\* of the returned dictionary, to the prediction history; a call that fails
\* has appended none and returned no forecast.
C4_OneRecordPerResult ==
    (pc["P"] = "idle" /\ npredicts > 0) =>
        IF out["P"] = "returned"
        THEN /\ result # None
             /\ Len(predictions) = call.hist0 + 1
             /\ predictions[Len(predictions)] = PredictionRecord(Val(result))
        ELSE /\ result = None
             /\ Len(predictions) = call.hist0

C4_Witness ==
    /\ pc["P"] = "idle"
    /\ out["P"] = "returned"
    /\ Len(predictions) = 1

\* C5: when the bundle's trained columns are not all present in the live
\* feature frame the call fails with FeatureMismatch, with no model invoked,
\* no dictionary built and nothing persisted; when they are all present the
\* model receives the columns in exactly the bundle's order.
C5_FeatureMismatch ==
    /\ (call.frame # None /\ pc["P"] \in {"idle", "save_pred"}) =>
          LET cols == Val(trainer["P"].feature_columns) IN
          IF Range(cols) \ Range(Val(call.frame)) # {}
          THEN /\ out["P"] = "FeatureMismatch"
               /\ ~ call.invoked
               /\ call.built = None
               /\ result = None
               /\ Len(predictions) = call.hist0
          ELSE /\ call.invoked
               /\ call.input = Some(cols)
    /\ out["P"] = "FeatureMismatch" => ~ call.invoked

C5_Witness ==
    /\ out["P"] = "FeatureMismatch"
    /\ call.frame # None
    /\ "visibility" \in Range(Val(trainer["P"].feature_columns))
    /\ "visibility" \notin Range(Val(call.frame))

\* C6: load_model of a city without a bundle ends with ModelNotFound and
\* leaves model, feature_columns and metrics as they were; predict in that
\* situation ends with the not-found outcome having fetched no features and
\* invoked no model.
C6_ModelNotFound ==
    /\ out["T"] = "ModelNotFound" =>
          /\ pc["T"] = "idle"
          /\ trainer["T"] = Val(before)
    /\ out["P"] = "ModelNotFound" =>
          /\ pc["P"] = "idle"
          /\ trainer["P"] = NewTrainer
          /\ ~ call.fetched
          /\ ~ call.invoked
          /\ result = None
          /\ Len(predictions) = call.hist0

C6_Witness ==
    /\ out["T"] = "ModelNotFound"
    /\ trainer["T"].model # None
    /\ out["P"] = "ModelNotFound"

C8_PartitionedByCity ==
    /\ [][\A b \in Cities :
            (pc["T"] \in {"trained", "save_write"} /\ city["T"] # b)
               => disk'[ModelPath(b)] = disk[ModelPath(b)]]_vars
    /\ [](call.invoked => call.bundleCity = Some(city["P"]))



(***************************************************************************)
(* ----------- specification of the feature-engineering pipeline --------- *)
(***************************************************************************)
InitFE ==
    /\ feIn \in InputFrames
    /\ fePhase = "raw"
    /\ feOut = <<>>
    /\ fePairs = [X |-> <<>>, y |-> <<>>]
    /\ feSplit = NoSplit
    /\ feFit = NoFit
    /\ StoreAtRest
    /\ FetchAtRest
    /\ DetAtRest
    /\ FcAtRest

\* features_df = extract_features(raw_df)
Extract ==
    /\ fePhase = "raw"
    /\ feOut' = ExtractFeatures(feIn)
    /\ fePhase' = "features"
    /\ UNCHANGED <<feIn, fePairs, feSplit, feFit, storeVars, fetchVars, detVars, fcVars>>

\* X, y = prepare_training_data(features_df, 'pm25', forecast_hours=24)
Prepare ==
    /\ fePhase = "features"
    /\ fePairs' = PrepareTrainingData(feOut, ForecastHours)
    /\ fePhase' = "pairs"
    /\ UNCHANGED <<feIn, feOut, feSplit, feFit, storeVars, fetchVars, detVars, fcVars>>

\* the call sites pass no test_size (the default 0.2); the parameter takes
\* any fraction, here in thousandths
TestSizes == {200, 500}

\* sklearn's sizes for a float test_size: n_test = ceil(test_size * n) and
\* n_train = n - n_test
NTest(n, testSize) == (n * testSize + 999) \div 1000

\* variant: the rows are permuted before the cut (shuffle left at its default)
TrainTestSplit_Shuffled(X, y, testSize) ==
    LET n  == Len(X)
        nt == n - NTest(n, testSize)
        Xs == [i \in 1..n |-> X[n + 1 - i]]
        ys == [i \in 1..n |-> y[n + 1 - i]]
    IN  [X_train |-> SubSeq(Xs, 1, nt), X_test |-> SubSeq(Xs, nt + 1, n),
         y_train |-> SubSeq(ys, 1, nt), y_test |-> SubSeq(ys, nt + 1, n)]

\* train_test_split(X, y, test_size=test_size, shuffle=False): the first
\* n_train rows and the rows after them
TrainTestSplit(X, y, testSize) ==
    LET n  == Len(X)
        nt == n - NTest(n, testSize)
    IN  [X_train |-> SubSeq(X, 1, nt), X_test |-> SubSeq(X, nt + 1, n),
         y_train |-> SubSeq(y, 1, nt), y_test |-> SubSeq(y, nt + 1, n)]

\* the split of train(); train_test_split raises ValueError when the
\* training part would be empty
Split(testSize) ==
    /\ fePhase = "pairs"
    /\ IF Len(fePairs.X) - NTest(Len(fePairs.X), testSize) = 0
       THEN /\ fePhase' = "error"
            /\ feSplit' = feSplit
       ELSE /\ fePhase' = "split"
            /\ feSplit' = TrainTestSplit(fePairs.X, fePairs.y, testSize)
    /\ UNCHANGED <<feIn, feOut, fePairs, feFit, storeVars, fetchVars, detVars, fcVars>>

\* metrics the evaluation on the test split can give (thousandths): those
\* of MetricsSet and the three outcomes next to the quality bar
FitMetrics ==
    MetricsSet \cup { [r2 |-> 700, mape |-> 30000, rmse |-> 5000],
                     [r2 |-> 699, mape |-> 30000, rmse |-> 5000],
                     [r2 |-> 700, mape |-> 30001, rmse |-> 5000] }

\* variant: a model below the quality bar is reported as an error
TrainStatus_Strict(m) ==
    IF m.r2 >= 700 /\ m.mape <= 30000 THEN "success" ELSE "error"

\* if r2 >= 0.7 and mape <= 30: status = "success" else: status = "warning"
TrainStatus(m) ==
    IF m.r2 >= 700 /\ m.mape <= 30000 THEN "success" ELSE "warning"

\* the rest of train(): the forest is fitted on the training split, the
\* metrics are computed on the test split and the status is returned
FitAndEvaluate ==
    /\ fePhase = "split"
    /\ \E m \in FitMetrics :
         feFit' = [feFit EXCEPT !.model = Some([city |-> "paris", metrics |-> m]),
                                !.metrics = Some(m),
                                !.status = Some(TrainStatus(m))]
    /\ fePhase' = "trained"
    /\ UNCHANGED <<feIn, feOut, fePairs, feSplit, storeVars, fetchVars, detVars, fcVars>>

\* model_path = trainer.save_model(request.city), as the train endpoint and
\* the training scripts call it when train has returned
SaveBundle ==
    /\ fePhase = "trained"
    /\ IF feFit.model = None
       THEN /\ fePhase' = "error"
            /\ feFit' = feFit
       ELSE /\ fePhase' = "saved"
            /\ feFit' = [feFit EXCEPT !.bundle =
                  Some(ModelData([model |-> feFit.model,
                                  feature_columns |-> Some(FilterCols(FeatureCols, CarriedCols)),
                                  metrics |-> feFit.metrics], 1, "paris"))]
    /\ UNCHANGED <<feIn, feOut, fePairs, feSplit, storeVars, fetchVars, detVars, fcVars>>

\* df.tail(1)
Tail1(df) == IF df = <<>> THEN <<>> ELSE <<df[Len(df)]>>

\* prepare_prediction_features on a fetched (non-empty) frame: the last row
\* of extract_features
LatestFeatures ==
    /\ fePhase = "raw"
    /\ feIn # <<>>
    /\ feOut' = Tail1(ExtractFeatures(feIn))
    /\ fePhase' = "latest"
    /\ UNCHANGED <<feIn, fePairs, feSplit, feFit, storeVars, fetchVars, detVars, fcVars>>

NextFE ==
    \/ Extract
    \/ Prepare
    \/ \E ts \in TestSizes : Split(ts)
    \/ FitAndEvaluate
    \/ SaveBundle
    \/ LatestFeatures

SpecFE == InitFE /\ [][NextFE]_vars

(***************************************************************************)
(* ---------------- claims about the feature pipeline -------------------- *)
(***************************************************************************)
\* the input row observed at hour t, if any
SamplesAt(t) == {i \in 1..Len(feIn) : feIn[i].timestamp = t}

\* C2: with forecast_hours = 24, a feature row of timestamp t is kept with
\* the pm25 observed at exactly t + 24h as its target if and only if the
\* input series holds a sample of timestamp t + 24h; otherwise it is dropped.
C2_TargetIsValueAt24h ==
    fePhase \in {"pairs", "split", "error"} =>
        \A k \in 1..Len(feOut) :
            LET r    == feOut[k]
                kept == {i \in 1..Len(fePairs.y) : fePairs.y[i].index = r.index}
                at24 == SamplesAt(r.timestamp + ForecastHours)
            IN  IF at24 # {}
                THEN /\ kept # {}
                     /\ \A i \in kept : \E j \in at24 :
                           Some(fePairs.y[i].target) = feIn[j].pm25
                ELSE kept = {}

\* C9: the rows extract_features returns are in increasing timestamp order
\* whatever the input order, have every required column non-null, and are
\* input rows with their raw values unchanged.
C9_SortedCompleteUnchanged ==
    fePhase \in {"features", "pairs", "split", "error"} =>
        /\ \A k \in 1..(Len(feOut) - 1) : feOut[k].timestamp < feOut[k + 1].timestamp
        /\ \A k \in 1..Len(feOut) :
              /\ \A c \in Range(RequiredCols) \cap CarriedCols : feOut[k][c] # None
              /\ \E i \in 1..Len(feIn) :
                    /\ feIn[i].timestamp = feOut[k].timestamp
                    /\ feIn[i].pm25 = feOut[k].pm25
                    /\ feIn[i].pm10 = feOut[k].pm10

C9_Witness ==
    /\ fePhase = "features"
    /\ Len(feOut) >= 2
    /\ Len(feOut) < Len(feIn) - 24
    /\ feIn[1].timestamp > feIn[Len(feIn)].timestamp

\* the input rows observed before hour t
EarlierRows(t) == {i \in 1..Len(feIn) : feIn[i].timestamp < t}

\* C10: every row extract_features returns has at least 24 rows before it
\* in the chronologically sorted input, and the trailing window of 168 rows
\* that ends at it holds at least 24 non-null pm25 observations.
C10_NoRowBelowFloor ==
    fePhase \in {"features", "pairs", "split", "error"} =>
        \A k \in 1..Len(feOut) :
            LET t       == feOut[k].timestamp
                earlier == EarlierRows(t)
                inWindow == IF Cardinality(earlier) < RollingWindow THEN earlier
                            ELSE {i \in earlier :
                                    Cardinality({j \in earlier :
                                        feIn[j].timestamp > feIn[i].timestamp}) < RollingWindow - 1}
            IN  /\ Cardinality(earlier) >= 24
                /\ feOut[k].pm25_mean_7d # None
                /\ Cardinality({i \in inWindow : feIn[i].pm25 # None}) + 1 >= MinPeriods

C10_Witness ==
    /\ fePhase = "features"
    /\ Len(feOut) >= 1
    /\ feOut[1].index = 24
    /\ \E i \in 1..Len(feIn) : feIn[i].pm25 = None

\* another input series that agrees with df on every row observed up to hour
\* t and differs afterwards: the first later row is missing, the others read
\* another pm25 (every second one none at all) and no pm10
OtherFuture(df, t) ==
    LET later == SortValues(SelectSeq(df, LAMBDA r : r.timestamp > t))
        drop  == IF later = <<>> THEN {} ELSE {later[1].timestamp}
        kept  == SelectSeq(df, LAMBDA r : r.timestamp \notin drop)
    IN  [i \in 1..Len(kept) |->
            IF kept[i].timestamp <= t THEN kept[i]
            ELSE [timestamp |-> kept[i].timestamp,
                  pm25 |-> IF kept[i].timestamp % 2 = 0 \/ kept[i].pm25 = None
                           THEN None ELSE Some(Val(kept[i].pm25) + 7000),
                  pm10 |-> None]]

\* the rows of feOut the causality check is made at: the first, the middle
\* and the last one
CutRows == {k \in 1..Len(feOut) : k = 1 \/ k = (Len(feOut) + 1) \div 2 \/ k = Len(feOut)}

\* C11: feature extraction is causal: a row returned for hour t carries the
\* same temporal, rolling, lag and rate-of-change values when the input is
\* replaced by a series that agrees with it up to t and differs afterwards.
C11_Causal ==
    fePhase = "features" =>
        \A k \in CutRows :
            LET other == ExtractFeatures(OtherFuture(feIn, feOut[k].timestamp))
            IN  \E j \in 1..Len(other) : other[j] = feOut[k]

C11_Witness ==
    /\ fePhase = "features"
    /\ Len(feOut) >= 3
    /\ Len(OtherFuture(feIn, feOut[1].timestamp)) < Len(feIn)
    /\ \E i \in 1..Len(feIn) :
          /\ feIn[i].timestamp > feOut[1].timestamp
          /\ feIn[i] \notin Range(OtherFuture(feIn, feOut[1].timestamp))

\* the hour of the row of X (or y) labelled idx
StampOf(idx) == feOut[CHOOSE k \in 1..Len(feOut) : feOut[k].index = idx].timestamp

\* C12: train splits the pairs by position without shuffling: the training
\* set is a non-empty prefix and the test set the remaining suffix of the
\* chronologically ordered pairs, X and y are cut at the same place, and
\* every test row is of a strictly later hour than every training row.
C12_ChronologicalSplit ==
    fePhase = "split" =>
        /\ feSplit.X_train \o feSplit.X_test = fePairs.X
        /\ feSplit.y_train \o feSplit.y_test = fePairs.y
        /\ Len(feSplit.X_train) = Len(feSplit.y_train)
        /\ Len(feSplit.X_train) >= 1
        /\ Len(feSplit.X_test) >= 1
        /\ \A a \in 1..Len(feSplit.X_train), b \in 1..Len(feSplit.X_test) :
              StampOf(feSplit.X_train[a].index) < StampOf(feSplit.X_test[b].index)

C12_Witness ==
    /\ fePhase = "split"
    /\ Len(feSplit.X_train) >= 2
    /\ Len(feSplit.X_test) >= 1
    /\ feIn[1].timestamp > feIn[Len(feIn)].timestamp

\* C21: prepare_prediction_features returns exactly one row, the most
\* recent row of the window that has every required column non-null; it
\* never returns an empty result.
C21_ExactlyOneLatestRow ==
    fePhase = "latest" =>
        /\ Len(feOut) = 1
        /\ \A c \in Range(RequiredCols) \cap CarriedCols : feOut[1][c] # None
        /\ \A i \in 1..Len(feIn) : feIn[i].timestamp <= feOut[1].timestamp
                                     \/ feIn[i].pm25 = None \/ feIn[i].pm10 = None

\* the least number of days of history asked of a training request
MinDays == 30

\* the days of data a frame spans
UsableDays(df) ==
    IF df = <<>> THEN 0
    ELSE LET stamps == {df[i].timestamp : i \in 1..Len(df)}
             hi == CHOOSE t \in stamps : \A u \in stamps : u <= t
             lo == CHOOSE t \in stamps : \A u \in stamps : u >= t
         IN  (hi - lo + 1) \div 24

TargetStampOf(idx) ==
    feOut[(CHOOSE k \in 1..Len(feOut) : feOut[k].index = idx) + ForecastHours].timestamp

\* C26: for every training example, the sample its target is taken from is
\* strictly earlier than the earliest test row.
C26_NoTestPeriodLeak ==
    fePhase = "split" =>
        \A a \in 1..Len(feSplit.y_train), b \in 1..Len(feSplit.X_test) :
            TargetStampOf(feSplit.y_train[a].index) < StampOf(feSplit.X_test[b].index)



(***************************************************************************)
(* ------------- fetch_training_data: the time-series store -------------- *)
(***************************************************************************)
\* full pages of the largest table explored
MaxPages == 2

\* batch_size, and the row cap of one read of the store
BatchSize == 1000
\* fetch_training_data(days=60)
Days == 60
\* the sensors report every 15 minutes; timestamps count quarter hours
TicksPerDay == 96

\* end_date and start_date = end_date - timedelta(days=days)
EndDate == 10000
StartDate == EndDate - Days * TicksPerDay

FetchCity == "paris"

\* row counts explored: around every multiple of the page size
RowCounts ==
    {n \in 0..(MaxPages * BatchSize + 1) :
        \E k \in 0..MaxPages : n \in {k * BatchSize - 1, k * BatchSize, k * BatchSize + 1}}

\* timestamps of the n rows of the city inside the window; the measurement
\* rows fill the window from its start, the weather rows from its end, and
\* both hold the two boundary instants once n >= 2
WindowStamps(tbl, n) ==
    IF n = 0 THEN {}
    ELSE IF tbl = "aq"
         THEN {StartDate + i : i \in 0..(n - 2)} \cup {IF n = 1 THEN StartDate ELSE EndDate}
         ELSE {EndDate - i : i \in 0..(n - 2)} \cup {IF n = 1 THEN EndDate ELSE StartDate}

\* a table of the store: the n rows of the city inside the window, rows of
\* the city just outside the window and rows of another city inside it
Table(tbl, n) ==
    {[city |-> FetchCity, timestamp |-> t] : t \in WindowStamps(tbl, n)}
    \cup {[city |-> FetchCity, timestamp |-> StartDate - 1],
          [city |-> FetchCity, timestamp |-> EndDate + 1],
          [city |-> "Lyon", timestamp |-> StartDate],
          [city |-> "Lyon", timestamp |-> StartDate + 1]}

\* .eq('city', c).gte('timestamp', lo).lte('timestamp', hi).order('timestamp'):
\* the matching rows by increasing timestamp
Select(table, c, lo, hi) ==
    LET stamps == {r.timestamp : r \in {q \in table : q.city = c
                                         /\ q.timestamp >= lo /\ q.timestamp <= hi}}
        ticks  == SelectSeq([i \in 1..(hi - lo + 1) |-> lo + i - 1],
                            LAMBDA t : t \in stamps)
    IN  [i \in 1..Len(ticks) |-> [city |-> c, timestamp |-> ticks[i]]]

\* .range(from, to).execute(): rows from..to (0-based, inclusive) of the
\* ordered selection, never more than the store's cap
ReadRange(rows, from, to) ==
    LET last == IF to + 1 < Len(rows) THEN to + 1 ELSE Len(rows)
        capped == IF last - from > BatchSize THEN from + BatchSize ELSE last
    IN  SubSeq(rows, from + 1, capped)

\* variant: the offset advances one row short of a page
NextOffset_Overlap(offset) == offset + BatchSize - 1

\* offset += batch_size
NextOffset(offset) == offset + BatchSize

InitFetch ==
    /\ ftRows \in [{"aq", "weather"} -> RowCounts]
    /\ ftPc = "aq"
    /\ ftOffset = 0
    /\ ftReads = [aq |-> 0, weather |-> 0]
    /\ ftAll = [aq |-> <<>>, weather |-> <<>>]
    /\ ftDf = <<>>
    /\ ftIns = [aq |-> {}, weather |-> {}]
    /\ StoreAtRest
    /\ FeAtRest
    /\ DetAtRest
    /\ FcAtRest

\* one iteration of a `while True` loop over the table tbl; leaving the loop
\* moves on to `after` with the offset reset
\* variant: a full page ends the loop too
LastPage_Inclusive(data) == Len(data) <= BatchSize

\* if len(response.data) < batch_size: break
LastPage(data) == Len(data) < BatchSize

LoopStep(tbl, after) ==
    LET data == ReadRange(Select(Table(tbl, ftRows[tbl]) \cup ftIns[tbl],
                                 FetchCity, StartDate, EndDate),
                          ftOffset, ftOffset + BatchSize - 1)
    IN  /\ ftReads' = [ftReads EXCEPT ![tbl] = @ + 1]
        /\ IF data = <<>>
           THEN /\ ftPc' = after
                /\ ftOffset' = 0
                /\ UNCHANGED ftAll
           ELSE /\ ftAll' = [ftAll EXCEPT ![tbl] = @ \o data]
                /\ IF LastPage(data)
                   THEN /\ ftPc' = after
                        /\ ftOffset' = 0
                   ELSE /\ ftOffset' = NextOffset(ftOffset)
                        /\ UNCHANGED ftPc

\* the loop over air_quality_measurements
FetchAqPage ==
    /\ ftPc = "aq"
    /\ LoopStep("aq", "weather")
    /\ UNCHANGED <<ftRows, ftDf, ftIns, storeVars, feVars, detVars, fcVars>>

\* the loop over weather_data
FetchWeatherPage ==
    /\ ftPc = "weather"
    /\ LoopStep("weather", "merge")
    /\ UNCHANGED <<ftRows, ftDf, ftIns, storeVars, feVars, detVars, fcVars>>

\* pd.merge(aq_df, weather_df, on=['timestamp', 'city'], how='inner')
Merge(aq, weather) ==
    LET keys == Range(weather) IN SelectSeq(aq, LAMBDA r : r \in keys)

\* the empty test and the merge that end fetch_training_data
FetchMerge ==
    /\ ftPc = "merge"
    /\ IF ftAll.aq = <<>> \/ ftAll.weather = <<>>
       THEN /\ ftPc' = "error"
            /\ UNCHANGED ftDf
       ELSE /\ ftPc' = "done"
            /\ ftDf' = Merge(ftAll.aq, ftAll.weather)
    /\ UNCHANGED <<ftRows, ftOffset, ftReads, ftAll, ftIns, storeVars, feVars, detVars, fcVars>>

NextFetch == FetchAqPage \/ FetchWeatherPage \/ FetchMerge

SpecFetch == InitFetch /\ [][NextFetch]_vars

\* most rows another client writes while one call pages
MaxInserts == 1

\* instants inside the window at which a late row can arrive
LateStamps == {StartDate + 1, EndDate - 1}

\* another client of the store inserts a row of the city while a loop is
\* between two page reads
InsertRow(tbl) ==
    /\ ftPc = tbl
    /\ ftOffset > 0
    /\ Cardinality(ftIns[tbl]) < MaxInserts
    /\ \E t \in LateStamps :
         LET r == [city |-> FetchCity, timestamp |-> t] IN
         /\ r \notin Table(tbl, ftRows[tbl]) \cup ftIns[tbl]
         /\ ftIns' = [ftIns EXCEPT ![tbl] = @ \cup {r}]
    /\ UNCHANGED <<ftRows, ftPc, ftOffset, ftReads, ftAll, ftDf,
                   storeVars, feVars, detVars, fcVars>>

NextFetchLive ==
    \/ FetchAqPage
    \/ FetchWeatherPage
    \/ FetchMerge
    \/ \E tbl \in {"aq", "weather"} : InsertRow(tbl)

\* fetch_training_data against a store that other clients write to
SpecFetchLive == InitFetch /\ [][NextFetchLive]_vars

\* C3: with the store unchanged and capped at 1000 rows per read, each loop
\* accumulates every row of the city inside [end - days, end] exactly once
\* and in timestamp order, for every row count.
C3_EveryRowOnceInOrder ==
    \A tbl \in {"aq", "weather"} :
        ((tbl = "aq" /\ ftPc \in {"weather", "merge", "done", "error"})
           \/ (tbl = "weather" /\ ftPc \in {"merge", "done", "error"})) =>
        LET all == ftAll[tbl]
            matching == {r \in Table(tbl, ftRows[tbl]) :
                           /\ r.city = FetchCity
                           /\ r.timestamp >= StartDate
                           /\ r.timestamp <= EndDate}
        IN  /\ Len(all) = Cardinality(matching)
            /\ Range(all) = matching
            /\ \A i \in 1..(Len(all) - 1) : all[i].timestamp < all[i + 1].timestamp

C3_Witness ==
    /\ ftPc = "merge"
    /\ Len(ftAll.aq) = 2 * BatchSize
    /\ Len(ftAll.weather) = BatchSize + 1
    /\ ftReads.aq = 3

\* C22: fetch_training_data fails when either fetched series is empty and
\* also when both are non-empty but share no timestamp; the merged frame it
\* returns is never empty.
C22_NeverEmptyMerge ==
    ftPc \in {"done", "error"} =>
        /\ ftPc = "error" <=> \/ ftAll.aq = <<>>
                              \/ ftAll.weather = <<>>
                              \/ Merge(ftAll.aq, ftAll.weather) = <<>>
        /\ ftPc = "done" => ftDf # <<>>

\* rows of the city inside the window the table held when the call began
Matching(tbl) ==
    {r \in Table(tbl, ftRows[tbl]) :
        r.city = FetchCity /\ r.timestamp >= StartDate /\ r.timestamp <= EndDate}

LoopEnded(tbl) ==
    \/ tbl = "aq" /\ ftPc \in {"weather", "merge", "done", "error"}
    \/ tbl = "weather" /\ ftPc \in {"merge", "done", "error"}

\* C25: each pagination loop terminates: over N matching rows it issues
\* exactly floor(N / 1000) + 1 reads and never more, it stops after the first
\* page of fewer than 1000 rows (an empty one included), and the offset has
\* advanced by exactly 1000 after every full page.
C25_ReadsAndOffsets ==
    \A tbl \in {"aq", "weather"} :
        LET N == Cardinality(Matching(tbl)) IN
        /\ ftReads[tbl] <= N \div BatchSize + 1
        /\ LoopEnded(tbl) => ftReads[tbl] = N \div BatchSize + 1
        /\ ftPc = tbl =>
              /\ ftOffset = BatchSize * ftReads[tbl]
              /\ Len(ftAll[tbl]) = ftOffset
              /\ ftOffset <= N

C25_Witness ==
    /\ ftPc = "merge"
    /\ Len(ftAll.aq) = BatchSize
    /\ ftReads.aq = 2
    /\ Len(ftAll.weather) = BatchSize - 1
    /\ ftReads.weather = 1

\* C30: when rows with a timestamp inside the window are inserted between
\* two page reads of a loop, the rows the loop accumulated hold no row twice
\* and hold every row that was in the window when the call began.
C30_StableUnderInserts ==
    \A tbl \in {"aq", "weather"} :
        LoopEnded(tbl) =>
            /\ \A i, j \in 1..Len(ftAll[tbl]) : ftAll[tbl][i] = ftAll[tbl][j] => i = j
            /\ Matching(tbl) \subseteq Range(ftAll[tbl])

(***************************************************************************)
(* ------------------- AnomalyDetector: the measurements ----------------- *)
(***************************************************************************)
\* rows of the city inside the window beyond the cap of one read
MaxExtra == 2

\* detect_all_anomalies(city, lookback_days=7)
LookbackDays == 7
\* five sensors of the city report every 15 minutes: 5 * 96 ticks a day
DetTicksPerDay == 480
\* threshold=3.0, in tenths
Threshold == 30
\* minimum sample counts of the two methods
ZMinSamples == 24
IsoMinSamples == 100
\* .range(0, 10000)
RangeLast == 10000

DetCity == "paris"

\* datetime.utcnow() of a detection run and the start of its window
DetNow == 20000
DetStart == DetNow - LookbackDays * DetTicksPerDay

\* row counts explored: around the two minimum sample counts, the 201 rows
\* of the documented scenario, and around the cap of one read
DetCounts ==
    {0, 1, ZMinSamples - 1, ZMinSamples, ZMinSamples + 1,
     IsoMinSamples - 1, IsoMinSamples, IsoMinSamples + 1, 201}
    \cup ((BatchSize - 1)..(BatchSize + MaxExtra))

\* shapes of a series: every reading 20, or readings of 20 with higher ones
\* at the given distances from the newest row ("head": at the oldest row)
Shapes == {"flat", "spike", "three", "five", "mixed", "head"}

DetSeries == [n : DetCounts, shape : Shapes]

\* the pm25 of row i (1 = oldest) of a series; the readings are whole ug/m3
\* and stay small in long series so that the exact statistics fit TLC's
\* integers
ReadingAt(d, i) ==
    LET big   == IF d.n <= 400 THEN 100 ELSE 40
        small == IF d.n <= 400 THEN 60 ELSE 24
        back  == d.n - i
    IN  CASE d.shape = "flat"  -> 20
          [] d.shape = "spike" -> IF back = 0 THEN 20 + big ELSE 20
          [] d.shape = "three" -> IF back \in {0, 5, 10} THEN 20 + big ELSE 20
          [] d.shape = "five"  -> IF back \in {0, 5, 10, 15, 20} THEN 20 + big ELSE 20
          [] d.shape = "mixed" -> IF back = 0 THEN 20 + big
                                  ELSE IF back \in {5, 10, 15} THEN 20 + small ELSE 20
          [] d.shape = "head"  -> IF i = 1 THEN 20 + big ELSE 20

\* a row of air_quality_measurements
Measurement(c, t, v) ==
    [city |-> c, timestamp |-> t, pm25 |-> v, pm10 |-> v + 10, no2 |-> 30, o3 |-> 40]

\* the table by increasing timestamp: a row of the city older than the
\* window, the n rows of the series ending at the newest instant of the
\* window, and a row of another city
Measurements(d) ==
    <<Measurement(DetCity, DetStart - 1, 300)>>
    \o [i \in 1..d.n |-> Measurement(DetCity, DetNow - (d.n - i), ReadingAt(d, i))]
    \o <<Measurement("Lyon", DetNow, 300)>>

\* .eq('city', c).gte('timestamp', lo).lte('timestamp', hi).order('timestamp')
DetSelect(table, c, lo, hi) ==
    SelectSeq(table, LAMBDA r : r.city = c /\ r.timestamp >= lo /\ r.timestamp <= hi)

\* response.data of the query both methods issue
DetResponse(d, c) ==
    ReadRange(DetSelect(Measurements(d), c, DetStart, DetNow), 0, RangeLast)

(***************************************************************************)
(* ------------------------ exact statistics ----------------------------- *)
(***************************************************************************)
\* sum of f[lo..hi]
RECURSIVE SumRange(_, _, _)
SumRange(f, lo, hi) ==
    IF lo > hi THEN 0
    ELSE IF lo = hi THEN f[lo]
    ELSE LET mid == (lo + hi) \div 2
         IN  SumRange(f, lo, mid) + SumRange(f, mid + 1, hi)

\* comparison of the fractions a/b and c/d (a, c >= 0 and b, d > 0) without
\* forming a product: -1, 0 or 1 as a/b is less than, equal to or greater
\* than c/d
RECURSIVE FracCmp(_, _, _, _)
FracCmp(a, b, c, d) ==
    LET q1 == a \div b
        q2 == c \div d
        r1 == a % b
        r2 == c % d
    IN  IF q1 < q2 THEN -1
        ELSE IF q1 > q2 THEN 1
        ELSE IF r1 = 0 /\ r2 = 0 THEN 0
        ELSE IF r1 = 0 THEN -1
        ELSE IF r2 = 0 THEN 1
        ELSE FracCmp(d, r2, b, r1)

\* df['pm25'].mean() and df['pm25'].std() (ddof = 1) of the rows, kept
\* exact: mean = s / n and std^2 = dd / (n * (n - 1))
PmStats(rows) ==
    LET n == Len(rows)
        s == SumRange([i \in 1..n |-> rows[i].pm25], 1, n)
        q == SumRange([i \in 1..n |-> rows[i].pm25 * rows[i].pm25], 1, n)
    IN  [n |-> n, s |-> s, dd |-> n * q - s * s]

\* (row.pm25 - mean) / std as the exact triple <<n * pm25 - s, n, dd>>:
\* z = num / n * sqrt(n * (n - 1) / dd)
ZScore(v, st) == [num |-> st.n * v - st.s, n |-> st.n, dd |-> st.dd]

\* |z| against the multiple k/2 of the threshold thr (in tenths): -1, 0 or 1.
\* z^2 = num^2 * (n - 1) / (n * dd) is compared with (k * thr / 20)^2
AbsZCmp(z, k, thr) ==
    FracCmp(z.num * z.num, z.dd, k * k * thr * thr * z.n, 400 * (z.n - 1))

\* variant: the two upper rungs of the ladder are exchanged
CalculateSeverity_Swapped(z, thr) ==
    IF AbsZCmp(z, 2, thr) < 0 THEN "low"
    ELSE IF AbsZCmp(z, 3, thr) < 0 THEN "medium"
    ELSE IF AbsZCmp(z, 4, thr) < 0 THEN "critical"
    ELSE "high"

\* _calculate_severity(abs(z), threshold)
CalculateSeverity(z, thr) ==
    IF AbsZCmp(z, 2, thr) < 0 THEN "low"
    ELSE IF AbsZCmp(z, 3, thr) < 0 THEN "medium"
    ELSE IF AbsZCmp(z, 4, thr) < 0 THEN "high"
    ELSE "critical"

\* _calculate_if_severity(anomaly_score), the score in thousandths
CalculateIfSeverity(score) ==
    IF score > -100 THEN "low"
    ELSE IF score > -200 THEN "medium"
    ELSE IF score > -300 THEN "high"
    ELSE "critical"

(***************************************************************************)
(* ------------------------- AnomalyDetector ----------------------------- *)
(***************************************************************************)
\* detect_zscore_anomalies from the test of response.data on
DetectZscoreOn(resp, c, thr, now) ==
    IF Len(resp) < ZMinSamples THEN <<>>
    ELSE LET st == PmStats(resp) IN
         IF st.dd = 0 THEN <<>>
         ELSE LET flagged == SelectSeq(resp,
                                LAMBDA r : AbsZCmp(ZScore(r.pm25, st), 2, thr) > 0)
              IN  [i \in 1..Len(flagged) |->
                     [city             |-> c,
                      timestamp        |-> flagged[i].timestamp,
                      pm25             |-> flagged[i].pm25,
                      expected_pm25    |-> <<st.s, st.n>>,
                      z_score          |-> ZScore(flagged[i].pm25, st),
                      detection_method |-> "z_score",
                      severity         |-> CalculateSeverity(ZScore(flagged[i].pm25, st), thr),
                      detected_at      |-> now]]

\* what a fitted IsolationForest can answer: which rows fit_predict marks -1
\* and the score_samples of those rows (thousandths), or None for a row
\* marked 1
IsoBehaviours == {"none", "outliers", "ends", "faint"}

IsoScore(b, resp, i) ==
    CASE b = "none"     -> None
      [] b = "outliers" -> IF resp[i].pm25 # 20 THEN Some(-600) ELSE None
      [] b = "ends"     -> IF i = 1 THEN Some(-250)
                           ELSE IF i = Len(resp) THEN Some(-150) ELSE None
      [] b = "faint"    -> IF i = 1 THEN Some(-350)
                           ELSE IF resp[i].pm25 # 20 THEN Some(-50) ELSE None

\* variant: only an empty response is refused
TooFewForForest_Empty(resp) == Len(resp) = 0

\* not response.data or len(response.data) < 100
TooFewForForest(resp) == Len(resp) < IsoMinSamples

\* detect_isolation_forest_anomalies from the test of response.data on, with
\* a forest that behaves as b
DetectIsolationOn(resp, c, b, now) ==
    IF TooFewForForest(resp) THEN [fitted |-> FALSE, records |-> <<>>]
    ELSE LET marked == SelectSeq([i \in 1..Len(resp) |-> i],
                                 LAMBDA i : IsoScore(b, resp, i) # None)
         IN  [fitted  |-> TRUE,
              records |-> [k \in 1..Len(marked) |->
                 LET r == resp[marked[k]]
                     sc == Val(IsoScore(b, resp, marked[k]))
                 IN  [city             |-> c,
                      timestamp        |-> r.timestamp,
                      pm25             |-> r.pm25,
                      pm10             |-> r.pm10,
                      no2              |-> r.no2,
                      o3               |-> r.o3,
                      anomaly_score    |-> sc,
                      detection_method |-> "isolation_forest",
                      severity         |-> CalculateIfSeverity(sc),
                      detected_at      |-> now]]]

\* variant: a later record replaces an earlier one of the same timestamp
Dedupe_LastWins(list) ==
    LET keep == SelectSeq([i \in 1..Len(list) |-> i],
                   LAMBDA i : \A j \in (i + 1)..Len(list) :
                                 list[j].timestamp # list[i].timestamp)
    IN  [k \in 1..Len(keep) |-> list[keep[k]]]

\* the timestamps_seen loop: a record is kept when no earlier record of the
\* list has its timestamp
Dedupe(list) ==
    LET keep == SelectSeq([i \in 1..Len(list) |-> i],
                   LAMBDA i : \A j \in 1..(i - 1) :
                                 list[j].timestamp # list[i].timestamp)
    IN  [k \in 1..Len(keep) |-> list[keep[k]]]

\* sorted(all_anomalies, key=lambda x: x['timestamp'], reverse=True): stable,
\* the first record of the greatest timestamp first
RECURSIVE SortedDesc(_)
SortedDesc(list) ==
    IF list = <<>> THEN <<>>
    ELSE LET i == CHOOSE j \in 1..Len(list) :
                    /\ \A k \in 1..Len(list) : list[j].timestamp >= list[k].timestamp
                    /\ \A k \in 1..(j - 1) : list[k].timestamp # list[j].timestamp
         IN  <<list[i]>> \o SortedDesc(SubSeq(list, 1, i - 1) \o SubSeq(list, i + 1, Len(list)))

\* the dictionary detect_all_anomalies returns
DetectAllResult(c, zs, ifs, now) ==
    LET all == Dedupe(zs \o ifs)
    IN  [city                   |-> c,
         total_anomalies        |-> Len(all),
         zscore_count           |-> Len(zs),
         isolation_forest_count |-> Len(ifs),
         anomalies              |-> SortedDesc(all),
         lookback_days          |-> LookbackDays,
         detected_at            |-> now]

\* alert_record of save_anomaly_to_alerts; the message shows the pm25 with
\* one decimal
AlertRecord(a) ==
    [city       |-> a.city,
     alert_type |-> "anomaly_detected",
     severity   |-> a.severity,
     message    |-> <<"Anomaly detected: PM2.5 = ", a.pm25 * 10, " ug/m3">>,
     data       |-> a,
     is_active  |-> TRUE,
     created_at |-> a.detected_at]

\* an alert of an earlier run
OldAlert ==
    [city |-> DetCity, alert_type |-> "threshold_exceeded", severity |-> "high",
     message |-> <<"PM2.5 above limit">>, data |-> None, is_active |-> TRUE,
     created_at |-> DetStart]

(***************************************************************************)
(* ------------- specification of a detect-and-alert run ----------------- *)
(***************************************************************************)
InitDetect ==
    /\ dtSeries \in DetSeries
    /\ dtPc = "zscore"
    /\ dtZ = <<>>
    /\ dtIf = <<>>
    /\ dtEval = NoEval
    /\ dtResult = None
    /\ dtAlerts = <<OldAlert>>
    /\ StoreAtRest
    /\ FeAtRest
    /\ FetchAtRest
    /\ FcAtRest

\* zscore_anomalies = await self.detect_zscore_anomalies(city, lookback_days)
DetectZscore ==
    /\ dtPc = "zscore"
    /\ LET resp == DetResponse(dtSeries, DetCity) IN
         /\ dtZ' = DetectZscoreOn(resp, DetCity, Threshold, DetNow)
         /\ dtEval' = [dtEval EXCEPT !.z = Len(resp)]
    /\ dtPc' = "isolation"
    /\ UNCHANGED <<dtSeries, dtIf, dtResult, dtAlerts, storeVars, feVars, fetchVars, fcVars>>

\* iforest_anomalies = await self.detect_isolation_forest_anomalies(...);
\* or its read of the store raises, and the exception leaves
\* detect_all_anomalies, which catches nothing
DetectIsolation ==
    /\ dtPc = "isolation"
    /\ \/ /\ \E b \in IsoBehaviours :
              LET resp == DetResponse(dtSeries, DetCity)
                  res  == DetectIsolationOn(resp, DetCity, b, DetNow)
              IN  /\ dtIf' = res.records
                  /\ dtEval' = [dtEval EXCEPT !.iso = Len(resp), !.fitted = res.fitted]
          /\ dtPc' = "merge"
       \/ /\ dtPc' = "failed"
          /\ UNCHANGED <<dtIf, dtEval>>
    /\ UNCHANGED <<dtSeries, dtZ, dtResult, dtAlerts, storeVars, feVars, fetchVars, fcVars>>

\* the rest of detect_all_anomalies: deduplicate, sort, count
MergeAnomalies ==
    /\ dtPc = "merge"
    /\ dtResult' = Some(DetectAllResult(DetCity, dtZ, dtIf, DetNow))
    /\ dtPc' = "promote"
    /\ UNCHANGED <<dtSeries, dtZ, dtIf, dtEval, dtAlerts, storeVars, feVars, fetchVars, fcVars>>

\* the loop of detect_and_create_alerts (and of the background worker): the
\* high and critical records of result['anomalies'] are inserted in order;
\* or the first insert raises and the run ends with the error
PromoteAlerts ==
    /\ dtPc = "promote"
    /\ LET promoted == SelectSeq(Val(dtResult).anomalies,
                                 LAMBDA a : a.severity \in {"high", "critical"})
       IN  \/ /\ dtAlerts' = dtAlerts \o [k \in 1..Len(promoted) |-> AlertRecord(promoted[k])]
              /\ dtPc' = "done"
           \/ /\ promoted # <<>>
              /\ dtAlerts' = dtAlerts
              /\ dtPc' = "error"
    /\ UNCHANGED <<dtSeries, dtZ, dtIf, dtEval, dtResult, storeVars, feVars, fetchVars, fcVars>>

NextDetect == DetectZscore \/ DetectIsolation \/ MergeAnomalies \/ PromoteAlerts

SpecDetect == InitDetect /\ [][NextDetect]_vars

(***************************************************************************)
(* ------------------- claims about the detector ------------------------- *)
(***************************************************************************)
\* every sample of the city inside the lookback window, oldest first
WindowRows == DetSelect(Measurements(dtSeries), DetCity, DetStart, DetNow)

ZscoreDone == dtPc \in {"isolation", "merge", "promote", "done", "error"}
IsolationDone == dtPc \in {"merge", "promote", "done", "error"}
Merged == dtPc \in {"promote", "done", "error"}

\* C13: the statistical method returns nothing when the window holds fewer
\* than 24 samples or the standard deviation of the window is zero;
\* otherwise it returns exactly one record for each sample of the window
\* whose |value - mean| / std exceeds the threshold and none for any other
\* sample, mean and std being those of the window.
C13_StatisticalFindings ==
    ZscoreDone =>
        LET w  == WindowRows
            st == PmStats(w)
        IN  IF Len(w) < 24 \/ st.dd = 0 THEN dtZ = <<>>
            ELSE /\ \A i \in 1..Len(w) :
                      Cardinality({k \in 1..Len(dtZ) : dtZ[k].timestamp = w[i].timestamp})
                        = IF AbsZCmp(ZScore(w[i].pm25, st), 2, Threshold) > 0 THEN 1 ELSE 0
                 /\ \A k \in 1..Len(dtZ) :
                      \E i \in 1..Len(w) : w[i].timestamp = dtZ[k].timestamp

\* C14: both methods evaluate every sample of the city that lies in the
\* lookback window: the rows counted for the minimum-count guards and used
\* for the statistics (or the training set) are all the rows of the window,
\* also when the window holds more rows than one read returns.
C14_WholeWindowEvaluated ==
    /\ ZscoreDone => dtEval.z = Len(WindowRows)
    /\ IsolationDone => dtEval.iso = Len(WindowRows)

SeverityRank(sv) ==
    CASE sv = "low" -> 0 [] sv = "medium" -> 1 [] sv = "high" -> 2 [] sv = "critical" -> 3

\* C15: a flagged sample with |z| above twice the threshold is critical, the
\* severity never decreases as |z| grows (medium below 1.5 x threshold, high
\* below 2 x threshold, critical from there on), and for 200 readings of 20
\* followed by one reading of 120 the last sample alone is flagged, as
\* critical.
C15_SeverityLadder ==
    ZscoreDone =>
        /\ \A k \in 1..Len(dtZ) :
              LET z == dtZ[k].z_score IN
              /\ AbsZCmp(z, 2, Threshold) > 0
              /\ AbsZCmp(z, 4, Threshold) > 0 => dtZ[k].severity = "critical"
              /\ dtZ[k].severity = "medium" <=> AbsZCmp(z, 3, Threshold) < 0
              /\ dtZ[k].severity = "high" <=>
                    (AbsZCmp(z, 3, Threshold) >= 0 /\ AbsZCmp(z, 4, Threshold) < 0)
        /\ \A j, k \in 1..Len(dtZ) :
              FracCmp(dtZ[j].z_score.num * dtZ[j].z_score.num, 1,
                      dtZ[k].z_score.num * dtZ[k].z_score.num, 1) <= 0
                => SeverityRank(dtZ[j].severity) <= SeverityRank(dtZ[k].severity)
        /\ dtSeries = [n |-> 201, shape |-> "spike"] =>
              /\ Len(dtZ) = 1
              /\ dtZ[1].timestamp = DetNow
              /\ dtZ[1].pm25 = 120
              /\ dtZ[1].severity = "critical"

C15_Witness ==
    /\ dtPc = "isolation"
    /\ \E j, k \in 1..Len(dtZ) :
          /\ dtZ[j].severity = "medium"
          /\ dtZ[k].severity = "critical"
          /\ dtZ[j].pm25 < dtZ[k].pm25

\* C16: the isolation method returns nothing whenever the window holds fewer
\* than 100 samples, whatever their values, and fits no forest.
C16_IsolationNeedsHundred ==
    (IsolationDone /\ Len(WindowRows) < 100) =>
        /\ dtIf = <<>>
        /\ ~dtEval.fitted

C16_Witness ==
    /\ dtPc = "merge"
    /\ Len(WindowRows) = 99
    /\ dtZ # <<>>
    /\ dtIf = <<>>

\* timestamps of the records of a list
Stamps(list) == {list[i].timestamp : i \in 1..Len(list)}

\* C17: the combined list holds one record per flagged timestamp, newest
\* first; a timestamp the statistical method flagged keeps its (first)
\* statistical record, any other its first isolation record;
\* total_anomalies is the length of the list and the per-method counts are
\* the sizes of the two method outputs before deduplication.
C17_FirstWinsMerge ==
    Merged =>
        LET r == Val(dtResult)
            A == r.anomalies
            first(list, t) == list[CHOOSE i \in 1..Len(list) :
                                 /\ list[i].timestamp = t
                                 /\ \A j \in 1..(i - 1) : list[j].timestamp # t]
        IN  /\ \A i \in 1..(Len(A) - 1) : A[i].timestamp > A[i + 1].timestamp
            /\ Stamps(A) = Stamps(dtZ) \cup Stamps(dtIf)
            /\ \A i \in 1..Len(A) :
                  IF A[i].timestamp \in Stamps(dtZ)
                  THEN A[i] = first(dtZ, A[i].timestamp)
                  ELSE A[i] = first(dtIf, A[i].timestamp)
            /\ r.total_anomalies = Len(A)
            /\ r.zscore_count = Len(dtZ)
            /\ r.isolation_forest_count = Len(dtIf)

C17_Witness ==
    /\ dtPc = "promote"
    /\ Stamps(dtZ) \cap Stamps(dtIf) # {}
    /\ Stamps(dtZ) \ Stamps(dtIf) # {}
    /\ Stamps(dtIf) \ Stamps(dtZ) # {}
    /\ Val(dtResult).total_anomalies < Len(dtZ) + Len(dtIf)

\* C18: after a detect-and-alert run the alerts table has gained one alert
\* for every record of severity high or critical that either method
\* produced in the run, and none for a record of severity low or medium.
C18_EveryHighRecordPromoted ==
    dtPc = "done" =>
        LET gained == SubSeq(dtAlerts, 2, Len(dtAlerts))
        IN  \A a \in Range(dtZ) \cup Range(dtIf) :
               Cardinality({k \in 1..Len(gained) : gained[k].data = a})
                 = IF a.severity \in {"high", "critical"} THEN 1 ELSE 0

\* C29: the two detection methods are independent inside detect_all: when
\* detect_statistical has produced findings and detect_isolation then fails,
\* detect_all still returns a summary that holds the statistical findings.
C29_StatisticalSurvivesFailure ==
    (dtPc = "failed" /\ dtZ # <<>>) =>
        /\ dtResult # None
        /\ Stamps(dtZ) \subseteq Stamps(Val(dtResult).anomalies)

(***************************************************************************)
(* ------------- specification of the forecast arithmetic ---------------- *)
(***************************************************************************)
\* upper boundaries of the first five bands (thousandths of ug/m3)
BandBounds == {12000, 35400, 55400, 150400, 250400}

\* point estimates explored: each boundary and its two neighbours, values
\* inside the bands and values that round up, down or tie at two decimals
Estimates ==
    UNION {{b - 1, b, b + 1} : b \in BandBounds}
    \cup {0, 3000, 4204, 12004, 12005, 35404, 36000, 40000, 300000}

\* metrics a bundle can carry: those of MetricsSet, a perfect fit, a MAPE
\* that rounds the confidence to 1 and a MAPE of exactly 100 percent
BundleMetrics ==
    MetricsSet \cup { [r2 |-> 1000, mape |-> 0,      rmse |-> 0],
                      [r2 |->  990, mape |-> 400,    rmse |-> 1204],
                      [r2 |->    0, mape |-> 100000, rmse |-> 36005] }

NoForecast == [results |-> <<>>, records |-> <<>>, responses |-> <<>>]

InitForecast ==
    /\ fcIn \in [x : Estimates, y : Estimates, metrics : BundleMetrics]
    /\ fcPc = "start"
    /\ fcOut = NoForecast
    /\ StoreAtRest
    /\ FeAtRest
    /\ FetchAtRest
    /\ DetAtRest

\* predict_j_plus_1 from the model's answer to the built dictionary, for two
\* requests served from the same bundle
BuildForecasts ==
    /\ fcPc = "start"
    /\ fcOut' = [fcOut EXCEPT !.results =
                    <<BuildResult("paris", fcIn.x, fcIn.metrics, 0),
                      BuildResult("paris", fcIn.y, fcIn.metrics, 1)>>]
    /\ fcPc' = "built"
    /\ UNCHANGED <<fcIn, storeVars, feVars, fetchVars, detVars>>

\* _save_prediction for both dictionaries
SaveForecasts ==
    /\ fcPc = "built"
    /\ fcOut' = [fcOut EXCEPT !.records =
                    <<PredictionRecord(fcOut.results[1]), PredictionRecord(fcOut.results[2])>>]
    /\ fcPc' = "saved"
    /\ UNCHANGED <<fcIn, storeVars, feVars, fetchVars, detVars>>

\* the field constraints of ModelMetrics and PredictionResponse (ge, le)
ValidResponse(p) ==
    /\ p.predicted_pm25 >= 0
    /\ p.confidence >= 0 /\ p.confidence <= 100
    /\ p.model_metrics.r2 >= 0 /\ p.model_metrics.r2 <= 1000
    /\ p.model_metrics.mape >= 0
    /\ p.model_metrics.rmse >= 0

\* return PredictionResponse(**prediction) in get_pm25_prediction: a
\* dictionary that fails validation raises, and the handler answers with
\* an error response
Respond(p) ==
    IF ValidResponse(p) THEN [status |-> 200, body |-> Some(p)]
    ELSE [status |-> 404, body |-> None]

\* the endpoint answers both requests once predict_j_plus_1 has returned
RespondForecasts ==
    /\ fcPc = "saved"
    /\ fcOut' = [fcOut EXCEPT !.responses =
                    <<Respond(fcOut.results[1]), Respond(fcOut.results[2])>>]
    /\ fcPc' = "responded"
    /\ UNCHANGED <<fcIn, storeVars, feVars, fetchVars, detVars>>

NextForecast == BuildForecasts \/ SaveForecasts \/ RespondForecasts

SpecForecast == InitForecast /\ [][NextForecast]_vars

(***************************************************************************)
(* ------------------- claims about the forecast ------------------------- *)
(***************************************************************************)
BandRank(b) ==
    CASE b = "Good" -> 0
      [] b = "Moderate" -> 1
      [] b = "Unhealthy for Sensitive Groups" -> 2
      [] b = "Unhealthy" -> 3
      [] b = "Very Unhealthy" -> 4
      [] b = "Hazardous" -> 5

\* C19: the AQI classification is total and monotonic over six bands with
\* upper-inclusive boundaries 12, 35.4, 55.4, 150.4 and 250.4: every value
\* gets the band whose interval holds it, a larger value never gets a lower
\* band, Moderate is never given above 35.4 and 36.0 is Unhealthy for
\* Sensitive Groups.
C19_AqiBands ==
    fcPc \in {"built", "saved"} =>
        LET bx == fcOut.results[1].aqi_level
            by == fcOut.results[2].aqi_level
            x  == fcIn.x
        IN  /\ bx \in {"Good", "Moderate", "Unhealthy for Sensitive Groups",
                       "Unhealthy", "Very Unhealthy", "Hazardous"}
            /\ BandRank(bx) = Cardinality({b \in BandBounds : b < x})
            /\ fcIn.x <= fcIn.y => BandRank(bx) <= BandRank(by)
            /\ x > 35400 => bx # "Moderate"
            /\ x = 36000 => bx = "Unhealthy for Sensitive Groups"

C19_Witness ==
    /\ fcPc = "built"
    /\ fcIn.x = 35400
    /\ fcIn.y = 35401
    /\ fcOut.results[1].aqi_level = "Moderate"
    /\ fcOut.results[2].aqi_level = "Unhealthy for Sensitive Groups"

\* |a - b| <= h
Within(a, b, h) == a - b <= h /\ b - a <= h

\* C20: in every prediction record the confidence is 1 - MAPE/100 clamped
\* into [0, 1], the upper bound is the point estimate plus RMSE and the lower
\* bound the point estimate minus RMSE clamped at 0 (each to the two
\* decimals the record keeps), so the lower bound is never negative.
C20_ConfidenceAndBounds ==
    fcPc = "saved" =>
        \A i \in 1..2 :
            LET rec  == fcOut.records[i]
                pred == IF i = 1 THEN fcIn.x ELSE fcIn.y
                m    == fcIn.metrics
                conf == IF 100000 - m.mape < 0 THEN 0
                        ELSE IF 100000 - m.mape > 100000 THEN 100000
                        ELSE 100000 - m.mape
                low  == IF pred - m.rmse < 0 THEN 0 ELSE pred - m.rmse
            IN  /\ Within(rec.confidence * 1000, conf, 500)
                /\ rec.confidence >= 0 /\ rec.confidence <= 100
                /\ Within(rec.prediction_range_upper * 10, pred + m.rmse, 5)
                /\ Within(rec.prediction_range_lower * 10, low, 5)
                /\ rec.prediction_range_lower >= 0

C20_Witness ==
    /\ fcPc = "saved"
    /\ fcIn.x < fcIn.metrics.rmse
    /\ fcIn.metrics.mape > 100000
    /\ fcOut.records[1].prediction_range_lower = 0
    /\ fcOut.records[1].confidence = 0
    /\ fcOut.records[2].prediction_range_lower > 0

\* C27: in every record predict returns, aqi_level is the band of the
\* predicted_pm25 the record reports (the estimate rounded to two decimals),
\* near band boundaries too.
C27_BandOfReportedValue ==
    fcPc \in {"built", "saved", "responded"} =>
        \A i \in 1..2 :
            fcOut.results[i].aqi_level = AqiLevel(fcOut.results[i].predicted_pm25 * 10)

\* C28: a prediction request that ends in an error response leaves the
\* prediction history unchanged, for every bundle train and save can produce.
C28_ErrorLeavesHistory ==
    fcPc = "responded" =>
        \A i \in 1..2 :
            fcOut.responses[i].status # 200 =>
                PredictionRecord(fcOut.results[i]) \notin Range(fcOut.records)

====
